---- MODULE Spec2Model ----
(***************************************************************************)
(* Model of archive_files.py: the incremental Wayback-Machine archiving    *)
(* job.  main() is a single sequential process; `pc` is its position.      *)
(* The record file (all_keys.csv) and the status file (archive_stats.txt)  *)
(* are modelled by their parsed content.  Python's None is the empty       *)
(* tuple <<>> and a present value v is <<v>>.                              *)
(***************************************************************************)
EXTENDS Integers, Sequences, FiniteSets, TLC

\* ---------------------------------------------------------------- bounds
MaxRecords == 2        \* longest record file explored
MaxTimeout == 1        \* largest --timeout explored (seconds)
MaxDelay   == 1        \* longest time a clock read or network call may take

\* ------------------------------------------------------ program constants
MaxAttempts_Six == 5 + 1 \* variant of MaxAttempts: range(6)
MaxAttempts     == 5   \* for attempt in range(5)
LastAttempt     == 4   \* attempt < 4
RateLimitWait   == 180 \* wait_time = 180
ServerErrorStep == 30  \* wait_time = 30 * (attempt + 1)
TransportStep   == 15  \* wait_time = 15 * (attempt + 1)
FoundPause      == 1   \* time.sleep(1) after a found-existing record
CheckOnlyPause  == 1   \* time.sleep(1) in check-only mode
SuccessPause    == 8   \* time.sleep(8)
FailurePause    == 3   \* time.sleep(3)
RateLimited     == 429
ServerError     == 520
NotFound        == 404
Unavailable     == 503

BaseUrl       == "http://download.tplinkcloud.com/"
WaybackOrigin == "https://web.archive.org"

\* An upper bound on the duration of any run over MaxRecords records: per
\* record one clock read, one availability call, five save calls each
\* followed by the longest wait, and the longest pause.
LongestRun ==
  MaxRecords * (2 * MaxDelay + MaxAttempts * (MaxDelay + RateLimitWait) + SuccessPause)

\* --timeout values: the small ones, which cut runs short at every possible
\* place, and one that no run can exceed.
Timeouts == (0..MaxTimeout) \cup {LongestRun}

\* The clock saturates one second above the largest small timeout: all
\* values above it compare the same way in `elapsed > timeout` for the
\* small timeouts, and LongestRun is never exceeded at all.
MaxClock == MaxTimeout + 1

\* ------------------------------------------------------------ input data
FieldNames == <<"creation", "size", "fullpath", "added", "removed", "wayback_url">>

FullPaths == {"a.bin", "b.bin"}

RecordDomain ==
  [creation : {"2020"}, size : {"7"}, fullpath : FullPaths, added : {"v1"},
   removed : {"", "v2"}, wayback_url : {"", "https://web.archive.org/web/0/old"}]

RecordLists == UNION {[1..n -> RecordDomain] : n \in 0..MaxRecords}

None == <<>>
Some(v) == <<v>>

SnapshotUrls == {"http://web.archive.org/web/1/snap",
                 "http://web.archive.org/web/2/snap"}

\* What the availability endpoint can answer: kind "error" is any transport
\* error, timeout or malformed body; kind "json" is a parsed body whose
\* closest snapshot has `available` and (optionally) `url`.
CheckResponses ==
  {[kind |-> "error", available |-> FALSE, url |-> None]}
    \cup [kind : {"json"}, available : BOOLEAN,
          url : {None, Some("")} \cup {Some(u) : u \in SnapshotUrls}]

\* HTTP error statuses handled by the final else of the HTTPError branch.
OtherStatuses == {NotFound, Unavailable}

\* What the save endpoint can answer: success (with or without a
\* Content-Location header), an HTTP error status, or a transport error.
SubmitResponses ==
  [kind : {"ok"}, code : {200},
   content_location : {None, Some(""), Some("/web/2/new")},
   geturl : {"https://web.archive.org/web/3/final"}]
    \cup [kind : {"http"}, code : {RateLimited, ServerError} \cup OtherStatuses,
          content_location : {None}, geturl : {""}]
    \cup {[kind |-> "error", code |-> 0, content_location |-> None, geturl |-> ""]}

\* No record: the files were last written outside the loop body, or never.
NoIndex == 0 - 1

\* No request has been sent yet.
NoResponse == [kind |-> "none"]

VARIABLES
  pc,             \* position of main()
  csvExists,      \* csv_path.exists()
  csvFile,        \* rows of all_keys.csv on disk
  statsFile,      \* content of archive_stats.txt on disk
  check_only,     \* args.check_only
  timeout,        \* args.timeout
  records,        \* the in-memory list `records`
  i,              \* loop index of `for i, row in enumerate(records)`
  archived,       \* counter `archived`
  skipped,        \* counter `skipped`
  found_existing, \* counter `found_existing`
  attempt,        \* loop index of `for attempt in range(5)`
  success,        \* flag `success`
  elapsed,        \* time.time() - start_time, in seconds, saturated
  exitCode,       \* value returned by main(); -1 while running
  \* -- observation of the run (history, not program state) --
  loaded,         \* the rows as read at load
  checked,        \* indices for which an availability request was sent
  submitted,      \* indices for which a save request was sent
  nCheck,         \* availability requests sent for the current record
  nSubmit,        \* save requests sent for the current record
  via,            \* how each record's wayback_url was set in this run
  nBackoff,       \* waits taken between save requests of the current record
  csvWrittenFor,  \* index whose processing last rewrote the record file
  statsWrittenFor, \* index whose processing last rewrote the status file
  lastWait,       \* duration of the most recent time.sleep
  lastResp,       \* answer of the most recent network request
  timedOut,       \* the loop ended through the timeout break
  finalPersists   \* number of executions of the final record-file write

vars == <<pc, csvExists, csvFile, statsFile, check_only, timeout, records, i,
          archived, skipped, found_existing, attempt, success, elapsed,
          exitCode, loaded, checked, submitted, nCheck, nSubmit, via,
          lastWait, lastResp, timedOut, finalPersists, nBackoff,
          csvWrittenFor, statsWrittenFor>>

\* ------------------------------------------------------------- helpers
Min(a, b) == IF a < b THEN a ELSE b

\* Time passing: d seconds later, saturated.
Advance(t, d) == Min(t + d, MaxClock)

\* Python truthiness of an optional string.
Truthy(o) == o # None /\ o[1] # ""

\* Variants of IsSet that test the wrong column.
IsSet_TestsRemovedOnly(row, field) == row["removed"] # ""

IsSet_TestsWaybackOnly(row, field) == row["wayback_url"] # ""

\* row.get(field): the field's value; empty is falsy.
IsSet(row, field) == row[field] # ""

\* Variants of StatsLines that leave one of the two summands out.
StatsLines_OmitsFound(a, s, f) ==
  [new_archives |-> a, already_archived |-> s, failed |-> 0]

StatsLines_OmitsSkipped(a, s, f) ==
  [new_archives |-> a, already_archived |-> f, failed |-> 0]

\* The three lines written to archive_stats.txt.
StatsLines(a, s, f) ==
  [new_archives |-> a, already_archived |-> s + f, failed |-> 0]

StaleStats == [new_archives |-> -1, already_archived |-> -1, failed |-> -1]

\* Variant of WriteRows that leaves out the rows marked removed.
WriteRows_DropsRemoved(rows) == SelectSeq(rows, LAMBDA r : r.removed = "")

\* csv.DictWriter(fieldnames=[...]).writerows(records): every row, in list
\* order, restricted to the six fields in their fixed order.
WriteRows(rows) ==
  [k \in 1..Len(rows) |-> [f \in {FieldNames[n] : n \in 1..Len(FieldNames)} |-> rows[k][f]]]

\* Variant of check_if_archived that lets an exception of the request
\* reach the caller's found branch as a value.
check_if_archived_ErrorIsValue(resp) ==
  IF resp.kind = "json" /\ resp.available
    THEN (IF resp.url = None THEN Some("") ELSE resp.url)
    ELSE IF resp.kind = "error" THEN Some("error") ELSE None

\* Variant of check_if_archived that reads a key the answer does not
\* carry, so that the default '' is returned for every available snapshot.
check_if_archived_WrongKey(resp) ==
  IF resp.kind = "json" /\ resp.available THEN Some("") ELSE None

\* check_if_archived(url): the snapshot url, "" when the body has no url,
\* None when unavailable or on any exception.
check_if_archived(resp) ==
  IF resp.kind = "json" /\ resp.available
    THEN (IF resp.url = None THEN Some("") ELSE resp.url)
    ELSE None

\* Variant of ArchiveUrl without the fallback to response.geturl().
ArchiveUrl_NoFallback(resp) ==
  IF Truthy(resp.content_location)
    THEN WaybackOrigin \o resp.content_location[1]
    ELSE ""

\* The archive url taken from a successful save response.
ArchiveUrl(resp) ==
  IF Truthy(resp.content_location)
    THEN WaybackOrigin \o resp.content_location[1]
    ELSE resp.geturl

\* url = f"http://download.tplinkcloud.com/{row['fullpath']}"
TargetUrl(row) == BaseUrl \o row.fullpath

Row == records[i + 1]

SetWayback(rows, k, u) == [rows EXCEPT ![k + 1].wayback_url = u]

\* Variant of NextAttempt that gives the record up once the time budget
\* is spent.
NextAttempt_ChecksTimeout ==
  /\ attempt' = attempt + 1
  /\ pc' = IF attempt + 1 < MaxAttempts /\ ~(elapsed' > timeout)
             THEN "submit" ELSE "after"

\* A step of `for attempt in range(5)` that reaches `continue` or the end of
\* the body: the next attempt, or the end of the loop after the fifth.
NextAttempt ==
  /\ attempt' = attempt + 1
  /\ pc' = IF attempt + 1 < MaxAttempts THEN "submit" ELSE "after"

\* time.sleep(d)
Sleep(t, d) == Advance(t, d)

\* ---------------------------------------------------------------- Init
Init ==
  /\ pc = "init_stats"
  /\ csvExists \in BOOLEAN
  /\ csvFile \in (IF csvExists THEN RecordLists ELSE {<<>>})
  /\ statsFile = StaleStats
  /\ check_only \in BOOLEAN
  /\ timeout \in Timeouts
  /\ records = <<>>
  /\ i = 0
  /\ archived = 0
  /\ skipped = 0
  /\ found_existing = 0
  /\ attempt = 0
  /\ success = FALSE
  /\ elapsed = 0
  /\ exitCode = -1
  /\ loaded = <<>>
  /\ checked = {}
  /\ submitted = {}
  /\ nCheck = 0
  /\ nSubmit = 0
  /\ via = <<>>
  /\ lastWait = 0
  /\ nBackoff = 0
  /\ csvWrittenFor = NoIndex
  /\ statsWrittenFor = NoIndex
  /\ lastResp = NoResponse
  /\ timedOut = FALSE
  /\ finalPersists = 0

\* ------------------------------------------------------------- actions
\* Variant of WriteInitialStats for a program that opens the status file
\* only once the record file is known to exist.
WriteInitialStats_NotYet ==
  /\ pc = "init_stats"
  /\ pc' = "exists"
  /\ UNCHANGED <<csvExists, csvFile, statsFile, check_only, timeout, records, i,
                 archived, skipped, found_existing, attempt, success, elapsed,
                 exitCode, loaded, checked, submitted, nCheck, nSubmit, via,
                 lastWait, timedOut, finalPersists, lastResp, nBackoff,
                 csvWrittenFor, statsWrittenFor>>

\* with open(stats_path, 'w'): the three zero lines, before anything else.
WriteInitialStats ==
  /\ pc = "init_stats"
  /\ statsFile' = StatsLines(0, 0, 0)
  /\ statsWrittenFor' = NoIndex
  /\ pc' = "exists"
  /\ UNCHANGED <<csvExists, csvFile, check_only, timeout, records, i, archived,
                 skipped, found_existing, attempt, success, elapsed, exitCode,
                 loaded, checked, submitted, nCheck, nSubmit, via, lastWait,
                 timedOut, finalPersists,
                 lastResp,
                 nBackoff, csvWrittenFor>>

\* if not csv_path.exists(): return 1
MissingFile ==
  /\ pc = "exists"
  /\ ~csvExists
  /\ exitCode' = 1
  /\ pc' = "done"
  /\ UNCHANGED <<csvExists, csvFile, statsFile, check_only, timeout, records, i,
                 archived, skipped, found_existing, attempt, success, elapsed,
                 loaded, checked, submitted, nCheck, nSubmit, via, lastWait,
                 timedOut, finalPersists,
                 lastResp,
                 nBackoff, csvWrittenFor, statsWrittenFor>>

\* csv.DictReader into `records`; start_time = time.time()
LoadRecords ==
  /\ pc = "exists"
  /\ csvExists
  /\ records' = csvFile
  /\ loaded' = csvFile
  /\ via' = [k \in 1..Len(csvFile) |-> "none"]
  /\ elapsed' = 0
  /\ pc' = "loop"
  /\ UNCHANGED <<csvExists, csvFile, statsFile, check_only, timeout, i, archived,
                 skipped, found_existing, attempt, success, exitCode, checked,
                 submitted, nCheck, nSubmit, lastWait, timedOut, finalPersists,
                 lastResp,
                 nBackoff, csvWrittenFor, statsWrittenFor>>

\* The for loop has no further row.
LoopExhausted ==
  /\ pc = "loop"
  /\ i = Len(records)
  /\ pc' = "final_csv"
  /\ UNCHANGED <<csvExists, csvFile, statsFile, check_only, timeout, records, i,
                 archived, skipped, found_existing, attempt, success, elapsed,
                 exitCode, loaded, checked, submitted, nCheck, nSubmit, via,
                 lastWait, timedOut, finalPersists,
                 lastResp,
                 nBackoff, csvWrittenFor, statsWrittenFor>>

\* Variant of TimeoutExceeded with the comparison turned around.
TimeoutExceeded_Inverted(t) == t < timeout

\* if time.time() - start_time > args.timeout
TimeoutExceeded(t) == t > timeout

\* The top of an iteration: the clock is read (some d seconds have passed
\* since the last read), then the row is classified.
LoopTop(d) ==
  /\ pc = "loop"
  /\ i < Len(records)
  /\ elapsed' = Advance(elapsed, d)

\* Variant of TimeoutReached that returns instead of breaking.
TimeoutReached_Returns ==
  \E d \in 0..MaxDelay :
    /\ LoopTop(d)
    /\ TimeoutExceeded(elapsed')
    /\ timedOut' = TRUE
    /\ exitCode' = 0
    /\ pc' = "done"
    /\ UNCHANGED <<csvExists, csvFile, statsFile, check_only, timeout, records, i,
                   archived, skipped, found_existing, attempt, success,
                   loaded, checked, submitted, nCheck, nSubmit, via,
                   lastWait, lastResp, finalPersists,
                 nBackoff, csvWrittenFor, statsWrittenFor>>

\* break on timeout
TimeoutReached ==
  \E d \in 0..MaxDelay :
    /\ LoopTop(d)
    /\ TimeoutExceeded(elapsed')
    /\ timedOut' = TRUE
    /\ pc' = "final_csv"
    /\ UNCHANGED <<csvExists, csvFile, statsFile, check_only, timeout, records, i,
                   archived, skipped, found_existing, attempt, success,
                   exitCode, loaded, checked, submitted, nCheck, nSubmit, via,
                   lastWait, finalPersists,
                 lastResp,
                 nBackoff, csvWrittenFor, statsWrittenFor>>

\* if row.get('wayback_url'): skipped += 1; continue
SkipArchived ==
  \E d \in 0..MaxDelay :
    /\ LoopTop(d)
    /\ ~TimeoutExceeded(elapsed')
    /\ IsSet(Row, "wayback_url")
    /\ skipped' = skipped + 1
    /\ i' = i + 1
    /\ UNCHANGED <<pc, csvExists, csvFile, statsFile, check_only, timeout,
                   records, archived, found_existing, attempt, success,
                   exitCode, loaded, checked, submitted, nCheck, nSubmit, via,
                   lastWait, timedOut, finalPersists,
                 lastResp,
                 nBackoff, csvWrittenFor, statsWrittenFor>>

\* if row.get('removed'): continue
SkipRemoved ==
  \E d \in 0..MaxDelay :
    /\ LoopTop(d)
    /\ ~TimeoutExceeded(elapsed')
    /\ ~IsSet(Row, "wayback_url")
    /\ IsSet(Row, "removed")
    /\ i' = i + 1
    /\ UNCHANGED <<pc, csvExists, csvFile, statsFile, check_only, timeout,
                   records, archived, skipped, found_existing, attempt, success,
                   exitCode, loaded, checked, submitted, nCheck, nSubmit, via,
                   lastWait, timedOut, finalPersists,
                 lastResp,
                 nBackoff, csvWrittenFor, statsWrittenFor>>

\* The row is pending: build the url and go on to the availability check.
BeginRecord ==
  \E d \in 0..MaxDelay :
    /\ LoopTop(d)
    /\ ~TimeoutExceeded(elapsed')
    /\ ~IsSet(Row, "wayback_url")
    /\ ~IsSet(Row, "removed")
    /\ nCheck' = 0
    /\ nSubmit' = 0
    /\ nBackoff' = 0
    /\ pc' = "check"
    /\ UNCHANGED <<csvExists, csvFile, statsFile, check_only, timeout, records, i,
                   archived, skipped, found_existing, attempt, success,
                   exitCode, loaded, checked, submitted, via, lastWait,
                   timedOut, finalPersists,
                 lastResp,
                 csvWrittenFor, statsWrittenFor>>

\* Variant of CheckBranch that ignores --check-only.
CheckBranch_IgnoresCheckOnly(existing) ==
  IF Truthy(existing) THEN "found" ELSE "archive"

\* The branch main() takes on the result of check_if_archived.
CheckBranch(existing) ==
  IF Truthy(existing) THEN "found"
  ELSE IF check_only THEN "skip"
  ELSE "archive"

\* existing = check_if_archived(url) and the branch taken on its result:
\* found (row updated, found_existing += 1), check-only skip, or on to the
\* archiving loop.
CheckIfArchived ==
  \E resp \in CheckResponses, d \in 0..MaxDelay :
    LET existing == check_if_archived(resp) IN
    /\ pc = "check"
    /\ checked' = checked \cup {i}
    /\ nCheck' = nCheck + 1
    /\ lastResp' = resp
    /\ IF CheckBranch(existing) = "found"
         THEN /\ records' = SetWayback(records, i, existing[1])
              /\ via' = [via EXCEPT ![i + 1] = "check"]
              /\ found_existing' = found_existing + 1
              /\ elapsed' = Advance(elapsed, d)
              /\ pc' = "found_csv"
              /\ UNCHANGED <<i, attempt, success, lastWait>>
         ELSE IF CheckBranch(existing) = "skip"
           THEN /\ elapsed' = Sleep(Advance(elapsed, d), CheckOnlyPause)
                /\ lastWait' = CheckOnlyPause
                /\ i' = i + 1
                /\ pc' = "loop"
                /\ UNCHANGED <<records, via, found_existing, attempt, success>>
           ELSE /\ elapsed' = Advance(elapsed, d)
                /\ success' = FALSE
                /\ attempt' = 0
                /\ pc' = "submit"
                /\ UNCHANGED <<records, via, found_existing, i, lastWait>>
    /\ UNCHANGED <<csvExists, csvFile, statsFile, check_only, timeout, archived,
                   skipped, exitCode, loaded, submitted, nSubmit, timedOut,
                   finalPersists,
                 nBackoff, csvWrittenFor, statsWrittenFor>>

\* Found existing: rewrite of the record file.
WriteCsvFound ==
  /\ pc = "found_csv"
  /\ csvFile' = WriteRows(records)
  /\ csvExists' = TRUE
  /\ csvWrittenFor' = i
  /\ pc' = "found_stats"
  /\ UNCHANGED <<statsFile, check_only, timeout, records, i, archived,
                 skipped, found_existing, attempt, success, elapsed, exitCode,
                 loaded, checked, submitted, nCheck, nSubmit, via, lastWait,
                 timedOut, finalPersists,
                 lastResp,
                 nBackoff, statsWrittenFor>>

\* Found existing: rewrite of the status file, time.sleep(1), continue.
WriteStatsFound ==
  /\ pc = "found_stats"
  /\ statsFile' = StatsLines(archived, skipped, found_existing)
  /\ statsWrittenFor' = i
  /\ elapsed' = Sleep(elapsed, FoundPause)
  /\ lastWait' = FoundPause
  /\ i' = i + 1
  /\ pc' = "loop"
  /\ UNCHANGED <<csvExists, csvFile, check_only, timeout, records, archived,
                 skipped, found_existing, attempt, success, exitCode, loaded,
                 checked, submitted, nCheck, nSubmit, via, timedOut,
                 finalPersists,
                 lastResp,
                 nBackoff, csvWrittenFor>>

\* Variant of SubmitOutcome for a client that does not raise on an HTTP
\* error status other than 429 and 520.
SubmitOutcome_ErrorStatusNotRaised(resp) ==
  IF resp.kind = "ok" THEN "success"
  ELSE IF resp.kind = "http" THEN
    (IF resp.code = RateLimited THEN "wait_retry"
     ELSE IF resp.code = ServerError /\ attempt < LastAttempt THEN "backoff_retry"
     ELSE IF resp.code = ServerError THEN "break"
     ELSE "success")
  ELSE (IF attempt < LastAttempt THEN "backoff_retry" ELSE "give_up")

\* Variant of SubmitOutcome that backs off and retries on every HTTP error
\* status but 429.
SubmitOutcome_RetriesEveryStatus(resp) ==
  IF resp.kind = "ok" THEN "success"
  ELSE IF resp.kind = "http" THEN
    (IF resp.code = RateLimited THEN "wait_retry"
     ELSE IF attempt < LastAttempt THEN "backoff_retry"
     ELSE "break")
  ELSE (IF attempt < LastAttempt THEN "backoff_retry" ELSE "give_up")

\* What one pass of the body of `for attempt in range(5)` does with the
\* answer of the save endpoint.
SubmitOutcome(resp) ==
  IF resp.kind = "ok" THEN "success"
  ELSE IF resp.kind = "http" THEN
    (IF resp.code = RateLimited THEN "wait_retry"
     ELSE IF resp.code = ServerError /\ attempt < LastAttempt THEN "backoff_retry"
     ELSE "break")
  ELSE (IF attempt < LastAttempt THEN "backoff_retry" ELSE "give_up")

\* Variant of WaitTime that multiplies by the 0-based attempt index.
WaitTime_ZeroBased(resp) ==
  IF resp.kind = "http" /\ resp.code = RateLimited THEN RateLimitWait
  ELSE IF resp.kind = "http" THEN ServerErrorStep * attempt
  ELSE TransportStep * (attempt + 1)

\* Variant of WaitTime with a two-minute cool-down after a 429.
WaitTime_ShortCooldown(resp) ==
  IF resp.kind = "http" /\ resp.code = RateLimited THEN 120
  ELSE IF resp.kind = "http" THEN ServerErrorStep * (attempt + 1)
  ELSE TransportStep * (attempt + 1)

\* wait_time of the except branches.
WaitTime(resp) ==
  IF resp.kind = "http" /\ resp.code = RateLimited THEN RateLimitWait
  ELSE IF resp.kind = "http" THEN ServerErrorStep * (attempt + 1)
  ELSE TransportStep * (attempt + 1)

\* One attempt of the archiving loop: the save request and the handling of
\* its answer up to the next attempt, the break, or the success writes.
SubmitAttempt ==
  \E resp \in SubmitResponses, d \in 0..MaxDelay :
    LET outcome == SubmitOutcome(resp) IN
    /\ pc = "submit"
    /\ attempt < MaxAttempts
    /\ submitted' = submitted \cup {i}
    /\ nSubmit' = nSubmit + 1
    /\ lastResp' = resp
    /\ CASE outcome = "success" ->
              /\ records' = SetWayback(records, i, ArchiveUrl(resp))
              /\ via' = [via EXCEPT ![i + 1] = "submit"]
              /\ archived' = archived + 1
              /\ success' = TRUE
              /\ elapsed' = Advance(elapsed, d)
              /\ pc' = "arch_csv"
              /\ UNCHANGED <<attempt, lastWait, nBackoff>>
         [] outcome \in {"wait_retry", "backoff_retry"} ->
              /\ elapsed' = Sleep(Advance(elapsed, d), WaitTime(resp))
              /\ lastWait' = WaitTime(resp)
              /\ nBackoff' = nBackoff + 1
              /\ NextAttempt
              /\ UNCHANGED <<records, via, archived, success>>
         [] outcome = "break" ->
              /\ elapsed' = Advance(elapsed, d)
              /\ pc' = "after"
              /\ UNCHANGED <<records, via, archived, success, attempt, lastWait,
                             nBackoff>>
         [] outcome = "give_up" ->
              /\ elapsed' = Advance(elapsed, d)
              /\ NextAttempt
              /\ UNCHANGED <<records, via, archived, success, lastWait, nBackoff>>
    /\ UNCHANGED <<csvExists, csvFile, statsFile, check_only, timeout, i, skipped,
                   found_existing, exitCode, loaded, checked, nCheck, timedOut,
                   finalPersists,
                 csvWrittenFor, statsWrittenFor>>

\* Variant of WriteCsvArchived that leaves the record file for the final write.
WriteCsvArchived_Deferred ==
  /\ pc = "arch_csv"
  /\ pc' = "arch_stats"
  /\ UNCHANGED <<csvExists, csvFile, statsFile, check_only, timeout, records, i,
                 archived, skipped, found_existing, attempt, success, elapsed,
                 exitCode, loaded, checked, submitted, nCheck, nSubmit, via,
                 lastWait, timedOut, finalPersists,
                 lastResp,
                 nBackoff, csvWrittenFor, statsWrittenFor>>

\* Archived: rewrite of the record file.
WriteCsvArchived ==
  /\ pc = "arch_csv"
  /\ csvFile' = WriteRows(records)
  /\ csvExists' = TRUE
  /\ csvWrittenFor' = i
  /\ pc' = "arch_stats"
  /\ UNCHANGED <<statsFile, check_only, timeout, records, i, archived,
                 skipped, found_existing, attempt, success, elapsed, exitCode,
                 loaded, checked, submitted, nCheck, nSubmit, via, lastWait,
                 timedOut, finalPersists,
                 lastResp,
                 nBackoff, statsWrittenFor>>

\* Archived: rewrite of the status file, then break.
WriteStatsArchived ==
  /\ pc = "arch_stats"
  /\ statsFile' = StatsLines(archived, skipped, found_existing)
  /\ statsWrittenFor' = i
  /\ pc' = "after"
  /\ UNCHANGED <<csvExists, csvFile, check_only, timeout, records, i, archived,
                 skipped, found_existing, attempt, success, elapsed, exitCode,
                 loaded, checked, submitted, nCheck, nSubmit, via, lastWait,
                 timedOut, finalPersists,
                 lastResp,
                 nBackoff, csvWrittenFor>>

\* Variant of AfterSubmit that rewrites both files before the failure pause.
AfterSubmit_PersistsFailure ==
  /\ pc = "after"
  /\ lastWait' = (IF success THEN SuccessPause ELSE FailurePause)
  /\ elapsed' = Sleep(elapsed, lastWait')
  /\ i' = i + 1
  /\ pc' = "loop"
  /\ csvFile' = (IF success THEN csvFile ELSE WriteRows(records))
  /\ statsFile' = (IF success THEN statsFile
                   ELSE StatsLines(archived, skipped, found_existing))
  /\ csvWrittenFor' = (IF success THEN csvWrittenFor ELSE i)
  /\ statsWrittenFor' = (IF success THEN statsWrittenFor ELSE i)
  /\ UNCHANGED <<csvExists, check_only, timeout, records, archived, skipped,
                 found_existing, attempt, success, exitCode, loaded, checked,
                 submitted, nCheck, nSubmit, via, timedOut, finalPersists,
                 lastResp, nBackoff>>

\* if success: time.sleep(8) else: time.sleep(3); then the next row.
AfterSubmit ==
  /\ pc = "after"
  /\ lastWait' = (IF success THEN SuccessPause ELSE FailurePause)
  /\ elapsed' = Sleep(elapsed, lastWait')
  /\ i' = i + 1
  /\ pc' = "loop"
  /\ UNCHANGED <<csvExists, csvFile, statsFile, check_only, timeout, records,
                 archived, skipped, found_existing, attempt, success, exitCode,
                 loaded, checked, submitted, nCheck, nSubmit, via, timedOut,
                 finalPersists,
                 lastResp,
                 nBackoff, csvWrittenFor, statsWrittenFor>>

\* After the loop: the unconditional rewrite of the record file.
WriteCsvFinal ==
  /\ pc = "final_csv"
  /\ csvFile' = WriteRows(records)
  /\ csvExists' = TRUE
  /\ csvWrittenFor' = NoIndex
  /\ finalPersists' = finalPersists + 1
  /\ pc' = "final_stats"
  /\ UNCHANGED <<statsFile, check_only, timeout, records, i, archived,
                 skipped, found_existing, attempt, success, elapsed, exitCode,
                 loaded, checked, submitted, nCheck, nSubmit, via, lastWait,
                 timedOut,
                 lastResp,
                 nBackoff, statsWrittenFor>>

\* After the loop: the unconditional rewrite of the status file; return 0.
WriteStatsFinal ==
  /\ pc = "final_stats"
  /\ statsFile' = StatsLines(archived, skipped, found_existing)
  /\ statsWrittenFor' = NoIndex
  /\ exitCode' = 0
  /\ pc' = "done"
  /\ UNCHANGED <<csvExists, csvFile, check_only, timeout, records, i, archived,
                 skipped, found_existing, attempt, success, elapsed, loaded,
                 checked, submitted, nCheck, nSubmit, via, lastWait, timedOut,
                 finalPersists,
                 lastResp,
                 nBackoff, csvWrittenFor>>

Next ==
  \/ WriteInitialStats
  \/ MissingFile
  \/ LoadRecords
  \/ LoopExhausted
  \/ TimeoutReached
  \/ SkipArchived
  \/ SkipRemoved
  \/ BeginRecord
  \/ CheckIfArchived
  \/ WriteCsvFound
  \/ WriteStatsFound
  \/ SubmitAttempt
  \/ WriteCsvArchived
  \/ WriteStatsArchived
  \/ AfterSubmit
  \/ WriteCsvFinal
  \/ WriteStatsFinal

Spec == Init /\ [][Next]_vars

\* The process is always scheduled: every network call is bounded by its
\* timeout and every sleep is finite, so an enabled step is eventually taken.
FairSpec == Spec /\ WF_vars(Next)

TypeOK ==
  /\ pc \in {"init_stats", "exists", "loop", "check", "found_csv", "found_stats",
             "submit", "arch_csv", "arch_stats", "after", "final_csv",
             "final_stats", "done"}
  /\ i \in 0..Len(records)
  /\ attempt \in 0..MaxAttempts
  /\ elapsed \in 0..MaxClock
  /\ exitCode \in {-1, 0, 1}
  /\ nBackoff \in 0..MaxAttempts
  /\ csvWrittenFor \in NoIndex..Len(records)
  /\ statsWrittenFor \in NoIndex..Len(records)

\* ======================================================================
\* Properties
\* ======================================================================
Loaded == pc \notin {"init_stats", "exists"} /\ csvExists

Indices == 1..Len(loaded)

PreArchived(k) == loaded[k].wayback_url # ""

RemovedPending(k) == loaded[k].removed # "" /\ loaded[k].wayback_url = ""

Counters == <<archived, skipped, found_existing>>

\* C1: a record whose wayback_url is non-empty at load never gets an
\* availability or save request, and the record file (in every state, hence
\* after every rewrite) and the in-memory list carry it with all six field
\* values as loaded.
C1_PreArchivedUntouched ==
  \A k \in Indices :
    PreArchived(k) =>
      /\ (k - 1) \notin (checked \cup submitted)
      /\ Len(csvFile) = Len(loaded)
      /\ csvFile[k] = loaded[k]
      /\ records[k] = loaded[k]

\* C1 witness: the run ended after a pre-archived record was skipped and a
\* later record was archived, so the file was rewritten by a per-record
\* checkpoint and by the final write.
C1_Witness ==
  /\ pc = "done" /\ exitCode = 0
  /\ Len(loaded) = 2
  /\ PreArchived(1) /\ skipped = 1
  /\ via[2] = "submit"
  /\ finalPersists = 1

\* C2 (state part): a record loaded with removed set and wayback_url empty
\* is never checked, never submitted, and its wayback_url stays empty in
\* memory and on disk.
C2_RemovedState ==
  \A k \in Indices :
    RemovedPending(k) =>
      /\ (k - 1) \notin (checked \cup submitted)
      /\ records[k].wayback_url = ""
      /\ csvFile[k].wayback_url = ""

\* C2 (step part): the step that visits such a record changes no counter.
C2_RemovedStep ==
  (pc = "loop" /\ i < Len(records) /\ RemovedPending(i + 1)) =>
    /\ UNCHANGED Counters
    /\ UNCHANGED statsFile
    /\ pc' \in {"loop", "final_csv"}

\* C2: for every record with non-empty removed and empty wayback_url the run
\* issues no check and no submit request, leaves wayback_url empty, and
\* visiting it increments no counter.
C2_RemovedSkippedSilently == [](C2_RemovedState) /\ [][C2_RemovedStep]_vars

\* C2 witness: a removed, pending record has been visited and the loop went
\* on to the record after it.
C2_Witness ==
  /\ pc = "loop"
  /\ i = 1
  /\ Len(loaded) = 2
  /\ RemovedPending(1)
  /\ ~timedOut

\* C3 (state part): after load the record file holds the loaded rows in the
\* loaded order with the six schema fields, and a row differs from its
\* loaded value at most in wayback_url, which was then empty and is set.
C3_SameRecords ==
  Loaded =>
    /\ Len(csvFile) = Len(loaded)
    /\ Len(records) = Len(loaded)
    /\ \A k \in Indices :
         /\ DOMAIN csvFile[k] = {FieldNames[n] : n \in 1..Len(FieldNames)}
         /\ \A f \in DOMAIN loaded[k] \ {"wayback_url"} :
              csvFile[k][f] = loaded[k][f] /\ records[k][f] = loaded[k][f]
         /\ csvFile[k].wayback_url # loaded[k].wayback_url =>
              loaded[k].wayback_url = "" /\ csvFile[k].wayback_url # ""
         /\ records[k].wayback_url # loaded[k].wayback_url =>
              loaded[k].wayback_url = "" /\ records[k].wayback_url # ""

\* C3 (step part): a non-empty wayback_url is never changed again, neither
\* in memory nor on disk.
C3_SetOnce ==
  Loaded =>
    \A k \in Indices :
      /\ csvFile[k].wayback_url # "" => csvFile'[k].wayback_url = csvFile[k].wayback_url
      /\ records[k].wayback_url # "" => records'[k].wayback_url = records[k].wayback_url

\* C3: the persisted record file always holds exactly the loaded records in
\* the loaded order; only wayback_url ever differs from its loaded value,
\* and it only changes from empty to non-empty.
C3_RecordsPreserved == [](C3_SameRecords) /\ [][C3_SetOnce]_vars

\* C3 witness: a file with a removed row and a pending row has been
\* rewritten with the pending row's wayback_url set.
C3_Witness ==
  /\ Loaded
  /\ Len(loaded) = 2
  /\ RemovedPending(1)
  /\ loaded[2].wayback_url = ""
  /\ csvFile[2].wayback_url # ""

\* C4: after load the record file agrees with the in-memory list on the
\* wayback_url of every record except possibly the one being processed, and
\* whenever the loop is about to consider the next record (and after the
\* loop) the file equals the in-memory list.
C4_CheckpointPerRecord ==
  Loaded =>
    /\ \A k \in Indices :
         k # i + 1 => csvFile[k].wayback_url = records[k].wayback_url
    /\ pc \in {"loop", "done"} => csvFile = records

\* C4 witness: the second record has just been archived in memory and not
\* yet on disk, while the first, archived earlier in this run, is on disk.
C4_Witness ==
  /\ pc = "arch_csv"
  /\ i = 1
  /\ via[1] = "submit"
  /\ csvFile[1].wayback_url = records[1].wayback_url
  /\ csvFile[2].wayback_url = ""
  /\ records[2].wayback_url # ""

Count(S) == Cardinality(S)

ZeroStats == [new_archives |-> 0, already_archived |-> 0, failed |-> 0]

\* C5 as claimed, stated for the runs whose time budget is never reached:
\* whenever the loop is about to consider a record, the status file's
\* new_archives and already_archived equal the in-memory counters.
C5_StatsCurrentAtLoopTop ==
  (timeout = LongestRun /\ pc = "loop" /\ i < Len(records)) =>
    /\ statsFile.new_archives = archived
    /\ statsFile.already_archived = skipped + found_existing

\* C5 amended: whenever the loop is about to consider a record (or to end),
\* the status file's new_archives equals the in-memory counter, and its
\* already_archived counts every record found by the check and lags behind
\* the in-memory value by at most the pre-archived records skipped, which
\* are counted in memory without a rewrite; with no such record skipped the
\* two are equal, and they are equal after the final persist.
C5_StatsLagOnlyBySkipped ==
  /\ pc = "loop" =>
       /\ statsFile.new_archives = archived
       /\ statsFile.already_archived >= found_existing
       /\ statsFile.already_archived <= skipped + found_existing
       /\ skipped = Count({k \in 1..i : PreArchived(k)})
  /\ (pc = "done" /\ exitCode = 0) =>
       statsFile = StatsLines(archived, skipped, found_existing)

\* C5 witness: a record was found by the check and persisted, then a
\* pre-archived record was skipped: the file lags by one.
C5_Witness ==
  /\ pc = "loop"
  /\ found_existing = 1
  /\ skipped = 1
  /\ statsFile.already_archived = 1

\* C6 as claimed: at process end the persisted already_archived is the
\* number of records pre-archived at load plus the number found by the
\* check in this run, however the loop ended.
C6_AlreadyArchivedCountsAllLoaded ==
  (pc = "done" /\ exitCode = 0) =>
    statsFile.already_archived =
      Count({k \in Indices : PreArchived(k)}) + Count({k \in Indices : via[k] = "check"})

\* C6 amended: at process end the persisted already_archived is the number
\* of pre-archived records the loop visited before it ended (all of them
\* when it reached the last record, those before the cutoff position when
\* it timed out) plus the number found by the check in this run.
C6_AlreadyArchivedCountsVisited ==
  (pc = "done" /\ exitCode = 0) =>
    /\ statsFile.already_archived =
         Count({k \in 1..i : PreArchived(k)}) + Count({k \in Indices : via[k] = "check"})
    /\ ~timedOut => i = Len(loaded)

\* C6 witness: a run cut off by the timeout after a found-existing record,
\* with a pre-archived record left unvisited.
C6_Witness ==
  /\ pc = "done" /\ exitCode = 0
  /\ timedOut
  /\ Len(loaded) = 2
  /\ via[1] = "check"
  /\ PreArchived(2)
  /\ statsFile.already_archived = 1

\* What C7 promises of a run with --timeout 0.
NothingProcessed ==
  /\ i = 0
  /\ checked = {} /\ submitted = {}
  /\ archived = 0 /\ skipped = 0 /\ found_existing = 0
  /\ finalPersists = 1
  /\ csvFile = loaded
  /\ statsFile = ZeroStats

\* C7 as claimed: with a timeout of 0 the loop processes zero records and
\* the run performs the final persist with all counters 0.
C7_ZeroTimeoutProcessesNothing ==
  (timeout = 0 /\ pc = "done" /\ exitCode = 0) => NothingProcessed

\* C7 amended (state part): with a timeout of 0, when the loop is cut off at
\* its first check, no record was visited, no request was sent, and the
\* final persist wrote the loaded rows and all-zero counters.
C7_CutoffAtFirstCheck ==
  (timeout = 0 /\ pc = "done" /\ exitCode = 0 /\ timedOut /\ i = 0) => NothingProcessed

\* C7 amended (step part): with a timeout of 0 the loop is cut off at the
\* first check at which the clock reads more than 0; a record is visited
\* only while the clock still reads 0.
C7_CutoffOnceClockMoves ==
  (timeout = 0 /\ pc = "loop" /\ i < Len(records)) =>
    /\ elapsed' > 0 => (pc' = "final_csv" /\ timedOut' /\ i' = i)
    /\ elapsed' = 0 => (~timedOut' /\ pc' \in {"loop", "check"})

\* C7 amended: with a timeout of 0 the comparison is strict, so the loop
\* stops at the first check where elapsed time is above 0; when that is the
\* first check, zero records are processed and the final persist carries
\* all-zero counters; the final persist is performed in every case.
C7_ZeroTimeoutStrict ==
  /\ [](C7_CutoffAtFirstCheck)
  /\ [][C7_CutoffOnceClockMoves]_vars
  /\ []((timeout = 0 /\ pc = "done" /\ exitCode = 0) => finalPersists = 1)

\* C7 witness: a timeout-0 run over two records, the first pre-archived,
\* cut off at the first check and ended with all-zero counters.
C7_Witness ==
  /\ timeout = 0
  /\ pc = "done" /\ exitCode = 0
  /\ timedOut /\ i = 0
  /\ Len(loaded) = 2
  /\ PreArchived(1)
  /\ statsFile = ZeroStats

\* C8 (safety part): main() returns 0 only at its end, after exactly one
\* final rewrite of the record file and with both files holding the
\* in-memory state; once the records are loaded it never returns 1.
C8_ExitAfterFinalPersist ==
  /\ exitCode = 0 =>
       /\ pc = "done"
       /\ finalPersists = 1
       /\ csvFile = records
       /\ statsFile = StatsLines(archived, skipped, found_existing)
  /\ Loaded => exitCode \in {-1, 0}
  /\ finalPersists <= 1

\* C8: for every loaded record list and every sequence of network outcomes
\* the run terminates, with exit code 0, and only after one final persist of
\* the record file and of the status file, whether the loop ended at the
\* last record or at the timeout cutoff.
C8_TerminatesAfterFinalPersist ==
  /\ (pc = "loop") ~> (pc = "done" /\ exitCode = 0)
  /\ [](C8_ExitAfterFinalPersist)

\* C8 witness: a run over two records ended normally; the first record was
\* archived and the second used up all five attempts.
C8_Witness ==
  /\ pc = "done" /\ exitCode = 0
  /\ ~timedOut
  /\ Len(loaded) = 2
  /\ via[1] = "submit"
  /\ via[2] = "none" /\ 1 \in submitted /\ nSubmit = MaxAttempts
  /\ finalPersists = 1

\* C9 (state part): when the archiving loop has ended without success the
\* record is still pending in memory and on disk; no request outcome makes
\* main() return 1 or stop before its end.
C9_FailedStaysPending ==
  /\ (pc = "after" /\ ~success) =>
       /\ records[i + 1].wayback_url = ""
       /\ csvFile[i + 1].wayback_url = ""
       /\ via[i + 1] = "none"
  /\ Loaded => exitCode # 1
  /\ pc # "done" => ENABLED Next

\* C9 (step part): an attempt whose answer is not a success changes no
\* record, no file and no counter; after the failed loop the run pauses and
\* moves to the next index; at the top of the loop the record at that index
\* is visited unless the timeout check ends the loop.
C9_FailureSteps ==
  /\ (pc = "submit" /\ lastResp'.kind # "ok") =>
       /\ UNCHANGED <<records, csvFile, statsFile, Counters, i, success, exitCode>>
       /\ pc' \in {"submit", "after"}
  /\ (pc = "after" /\ ~success) =>
       /\ UNCHANGED <<records, csvFile, statsFile, Counters, exitCode>>
       /\ i' = i + 1
       /\ pc' = "loop"
       /\ lastWait' = FailurePause
  /\ (pc = "loop" /\ i < Len(records)) =>
       \/ pc' = "final_csv" /\ timedOut' /\ i' = i
       \/ pc' = "check" /\ i' = i
       \/ pc' = "loop" /\ i' = i + 1

\* C9: per-record errors are isolated: a submit that ends without success
\* leaves the record's wayback_url empty in memory and on disk, changes no
\* counter, and the loop proceeds to the next record in order, subject only
\* to the timeout check; no network outcome aborts the run.
C9_ErrorsIsolated == [](C9_FailedStaysPending) /\ [][C9_FailureSteps]_vars

\* C9 witness: the first of two records used up five attempts ending in a
\* transport error, stayed pending, and the loop is at the second record.
C9_Witness ==
  /\ pc = "loop"
  /\ i = 1 /\ Len(records) = 2
  /\ 0 \in submitted
  /\ nSubmit = MaxAttempts
  /\ lastResp.kind = "error"
  /\ records[1].wayback_url = "" /\ csvFile[1].wayback_url = ""
  /\ lastWait = FailurePause
  /\ ~timedOut

\* C10 (state part): in check-only mode no save request is ever sent,
\* new_archives stays 0, a wayback_url that differs from its loaded value
\* was set by a found-existing check, and a record whose check reported
\* not-found is pending in memory and on disk.
C10_NoSubmitState ==
  check_only =>
    /\ submitted = {}
    /\ nSubmit = 0
    /\ archived = 0
    /\ statsFile.new_archives \in {0, StaleStats.new_archives}
    /\ pc \notin {"submit", "arch_csv", "arch_stats", "after"}
    /\ \A k \in 1..Len(records) :
         /\ via[k] # "submit"
         /\ records[k].wayback_url # loaded[k].wayback_url =>
              via[k] = "check" /\ (k - 1) \in checked
         /\ ((k - 1) \in checked /\ via[k] = "none") =>
              records[k].wayback_url = "" /\ csvFile[k].wayback_url = ""

\* C10 (step part): in check-only mode a step changes the record list only
\* by storing the url a check reported; a check that reports not-found
\* leaves the list alone, pauses one second and moves to the next index.
C10_NoSubmitSteps ==
  (check_only /\ Loaded) =>
    /\ records' # records =>
         /\ pc = "check"
         /\ Truthy(check_if_archived(lastResp'))
         /\ records' = SetWayback(records, i, check_if_archived(lastResp')[1])
    /\ (pc = "check" /\ ~Truthy(check_if_archived(lastResp'))) =>
         /\ records' = records
         /\ i' = i + 1
         /\ pc' = "loop"
         /\ lastWait' = CheckOnlyPause

\* C10: in check-only mode the run never issues a submit request:
\* new_archives stays 0, a wayback_url changes only through a found-existing
\* result of the check, and every record reported not-found stays pending.
C10_CheckOnlyNeverSubmits == [](C10_NoSubmitState) /\ [][C10_NoSubmitSteps]_vars

\* C10 witness: a check-only run ended with the first record found by the
\* check and the second checked, reported not-found and still pending.
C10_Witness ==
  /\ check_only
  /\ pc = "done" /\ exitCode = 0
  /\ Len(loaded) = 2
  /\ via[1] = "check"
  /\ 1 \in checked /\ via[2] = "none"
  /\ records[2].wayback_url = ""
  /\ loaded[2].removed = ""


\* ----------------------------------------------------------------------
\* C11
\* ----------------------------------------------------------------------

\* The answer carries the HTTP error status `code`.
IsStatus(resp, code) == resp.kind = "http" /\ resp.code = code

\* The first save request of the current record was answered 429 and the
\* second has not been sent yet.
C11_AfterFirst429 ==
  pc = "submit" /\ attempt = 1 /\ IsStatus(lastResp, RateLimited)

\* After a 429 on the first attempt: one request sent, one wait taken, and
\* that wait was the 180 second cool-down; the record is still pending.
C11_CooldownState ==
  C11_AfterFirst429 =>
    /\ nSubmit = 1
    /\ nBackoff = 1
    /\ lastWait = RateLimitWait
    /\ records[i + 1].wayback_url = ""
    /\ ~success

\* The two steps of the scenario: the 429 on the first attempt waits the
\* cool-down and goes to the second attempt; a success on the second attempt
\* sets wayback_url, adds one to the archived counter and waits no more.
C11_CooldownSteps ==
  /\ (pc = "submit" /\ attempt = 0 /\ nSubmit' = 1
        /\ IsStatus(lastResp', RateLimited)) =>
       /\ pc' = "submit" /\ attempt' = 1
       /\ lastWait' = RateLimitWait
       /\ elapsed' = Min(elapsed + RateLimitWait, MaxClock)
       /\ nBackoff' = 1
       /\ UNCHANGED <<records, archived, csvFile, statsFile>>
  /\ (C11_AfterFirst429 /\ nSubmit' = 2 /\ lastResp'.kind = "ok") =>
       /\ nBackoff' = 1 /\ lastWait' = RateLimitWait
       /\ records'[i + 1].wayback_url = ArchiveUrl(lastResp')
       /\ records'[i + 1].wayback_url # ""
       /\ archived' = archived + 1
       /\ success'
       /\ pc' = "arch_csv"

\* The successful second attempt is reported: when its writes are done the
\* status file carries the incremented new_archives and the record file the
\* URL, still after exactly two requests and one wait.
C11_Reported ==
  (pc = "after" /\ success /\ nSubmit = 2 /\ nBackoff = 1
     /\ lastWait = RateLimitWait) =>
    /\ statsFile.new_archives = archived
    /\ archived >= 1
    /\ csvFile[i + 1].wayback_url = records[i + 1].wayback_url
    /\ csvFile[i + 1].wayback_url # ""

\* C11: a 429 on the first save attempt followed by a success on the second
\* makes exactly two save requests with exactly one wait, of 180 seconds,
\* between them; the record ends with wayback_url set and new_archives is
\* incremented by one.
C11_RateLimitThenSuccess ==
  [](C11_CooldownState /\ C11_Reported) /\ [][C11_CooldownSteps]_vars

\* The scenario happened: 429, cool-down, success, both files written.
C11_Witness ==
  /\ pc = "after" /\ success
  /\ nSubmit = 2 /\ nBackoff = 1 /\ lastWait = RateLimitWait
  /\ via[i + 1] = "submit"
  /\ statsFile.new_archives = 1


\* ----------------------------------------------------------------------
\* C12
\* ----------------------------------------------------------------------

\* The answer is an HTTP error status other than 429 and 520.
IsOtherStatus(resp) ==
  resp.kind = "http" /\ resp.code \notin {RateLimited, ServerError}

\* The save request sent by this step was answered with such a status.
C12_OtherStatusNow == pc = "submit" /\ nSubmit' = nSubmit + 1 /\ IsOtherStatus(lastResp')

\* The step that receives the status leaves the archiving loop at once: it
\* takes no wait, and changes no record, counter or file. The step out of
\* the abandoned record sends nothing and moves to the next record, and no
\* step ever sends a save request for a record the loop has left.
C12_AbandonSteps ==
  /\ C12_OtherStatusNow =>
       /\ pc' = "after" /\ ~success'
       /\ nBackoff' = nBackoff /\ lastWait' = lastWait
       /\ elapsed' <= Min(elapsed + MaxDelay, MaxClock)
       /\ UNCHANGED <<records, csvFile, statsFile, archived, found_existing,
                      skipped, attempt>>
  /\ pc = "after" =>
       /\ pc' = "loop" /\ i' = i + 1
       /\ UNCHANGED <<nSubmit, nCheck, checked, submitted, records, csvFile>>
  /\ i' >= i
  /\ submitted' \subseteq submitted \cup {i}

\* Once abandoned, the record is pending in memory and in the record file,
\* and the requests sent for it are those made up to the refused one.
C12_AbandonedState ==
  /\ (pc = "after" /\ ~success /\ IsOtherStatus(lastResp)) =>
       /\ records[i + 1].wayback_url = ""
       /\ csvFile[i + 1].wayback_url = ""
       /\ nSubmit = attempt + 1
       /\ nBackoff = attempt
  /\ \A k \in submitted : k <= i
  /\ (Loaded /\ pc \in {"final_csv", "final_stats", "done"}) =>
       \A k \in Indices :
         (via[k] = "none" /\ ~PreArchived(k)) => csvFile[k].wayback_url = ""

\* C12: an HTTP error status other than 429 and 520 (404, 503) on any
\* attempt of a save abandons the record immediately: no further save
\* request is sent for it, no backoff wait is taken, and the record remains
\* pending in the persisted record file.
C12_OtherStatusAbandons ==
  [](C12_AbandonedState) /\ [][C12_AbandonSteps]_vars

\* A record abandoned on its third attempt (after two waits), the run over.
C12_Witness ==
  /\ pc = "done" /\ exitCode = 0
  /\ IsOtherStatus(lastResp)
  /\ nSubmit = 3 /\ nBackoff = 2
  /\ \E k \in Indices : k - 1 \in submitted /\ csvFile[k].wayback_url = ""


\* ----------------------------------------------------------------------
\* C13
\* ----------------------------------------------------------------------

\* The availability answer reports an available snapshot with a URL (a
\* non-empty string).
ReportsSnapshot(resp) ==
  resp.kind = "json" /\ resp.available /\ resp.url # None /\ resp.url[1] # ""

\* The check sent by this step got such an answer.
C13_FoundNow == pc = "check" /\ nCheck' = nCheck + 1 /\ ReportsSnapshot(lastResp')

\* The step that receives the answer stores the reported URL in the record
\* and adds one to the found-existing counter only; the next two steps
\* rewrite the record file and the status file from memory, and the loop
\* then moves on without a save request.
C13_FoundSteps ==
  /\ C13_FoundNow =>
       /\ records'[i + 1].wayback_url = lastResp'.url[1]
       /\ records' = [records EXCEPT ![i + 1].wayback_url = lastResp'.url[1]]
       /\ found_existing' = found_existing + 1
       /\ skipped + found_existing + 1 = skipped' + found_existing'
       /\ archived' = archived
       /\ pc' = "found_csv"
       /\ UNCHANGED <<submitted, nSubmit, i>>
  /\ pc = "found_csv" =>
       /\ csvFile' = records /\ pc' = "found_stats"
       /\ UNCHANGED <<records, submitted, nSubmit, i, archived, found_existing,
                      skipped, elapsed>>
  /\ pc = "found_stats" =>
       /\ statsFile' = [new_archives |-> archived,
                        already_archived |-> skipped + found_existing,
                        failed |-> 0]
       /\ pc' = "loop" /\ i' = i + 1
       /\ UNCHANGED <<records, csvFile, submitted, nSubmit, archived,
                      found_existing, skipped>>

\* A record whose URL came from the check was never submitted, and both
\* files carry the outcome before the next record is considered.
C13_FoundState ==
  /\ pc \in {"found_csv", "found_stats"} =>
       /\ ReportsSnapshot(lastResp)
       /\ records[i + 1].wayback_url = lastResp.url[1]
       /\ nSubmit = 0
  /\ Loaded => \A k \in Indices : via[k] = "check" => k - 1 \notin submitted
  /\ (pc = "loop" /\ i > 0 /\ via[i] = "check") =>
       /\ csvFile[i].wayback_url = lastResp.url[1]
       /\ statsFile.already_archived = skipped + found_existing
       /\ statsFile.new_archives = archived

\* C13: for every snapshot URL X (a non-empty string), when the availability
\* check of a pending record is answered available = true with url = X, the
\* record's wayback_url becomes X, the found-existing counter (and with it
\* already_archived) increments by exactly one and new_archives is
\* unchanged, both files are written at once, and no save request is sent
\* for the record.
C13_FoundExistingRecorded ==
  [](C13_FoundState) /\ [][C13_FoundSteps]_vars

\* Both snapshot URLs of the model were recorded from checks in one run,
\* and the files written.
C13_Witness ==
  /\ pc = "loop" /\ i = 2 /\ Len(records) = 2
  /\ via = <<"check", "check">>
  /\ csvFile[1].wayback_url # csvFile[2].wayback_url
  /\ statsFile.already_archived = 2
  /\ submitted = {}


\* ----------------------------------------------------------------------
\* C14
\* ----------------------------------------------------------------------

\* Everything of the run but its position, its exit code and the status
\* file.
C14_RestOfState ==
  <<csvExists, csvFile, check_only, timeout, records, i, archived, skipped,
    found_existing, attempt, success, elapsed, loaded, checked, submitted,
    nCheck, nSubmit, via, lastWait, lastResp, timedOut, finalPersists,
    nBackoff, csvWrittenFor>>

\* With the record file missing: no request was ever sent, no record was
\* read, the record file was neither created nor written, and the run is
\* before the existence test or has returned 1 with the status file holding
\* three zero counters. Exit code 1 is returned in no other case.
C14_MissingState ==
  /\ ~csvExists =>
       /\ checked = {} /\ submitted = {} /\ nCheck = 0 /\ nSubmit = 0
       /\ lastResp = NoResponse
       /\ records = <<>> /\ csvFile = <<>>
       /\ finalPersists = 0 /\ csvWrittenFor = NoIndex
       /\ pc \in {"init_stats", "exists", "done"}
       /\ pc = "done" =>
            /\ exitCode = 1
            /\ statsFile = [new_archives |-> 0, already_archived |-> 0,
                            failed |-> 0]
  /\ exitCode = 1 => (~csvExists /\ pc = "done")

\* With the record file missing, a step changes nothing but the position,
\* the exit code and (once) the status file; the file stays missing.
C14_MissingSteps ==
  ~csvExists =>
    /\ UNCHANGED C14_RestOfState
    /\ statsFile' # statsFile => pc = "init_stats"
    /\ pc = "exists" => (pc' = "done" /\ exitCode' = 1 /\ statsFile' = statsFile)

\* C14: when the input record file is missing the run ends with exit code 1
\* without any network call and without creating or writing the record
\* file; the only thing it changed is the status file, overwritten before
\* the existence test with all three counters 0.
C14_MissingFileExits ==
  [](C14_MissingState) /\ [][C14_MissingSteps]_vars

\* The run with no record file has returned.
C14_Witness ==
  /\ pc = "done" /\ exitCode = 1 /\ ~csvExists
  /\ statsFile.new_archives = 0


\* ----------------------------------------------------------------------
\* C15
\* ----------------------------------------------------------------------

\* The request counters of the current record: at most one check and at
\* most five save requests, and inside the archiving loop every attempt made
\* so far, whatever its answer, has used one of the five slots. A record
\* the loop has not begun yet has received no request, and one it has left
\* receives none (the counters are those of one visit).
C15_BoundedState ==
  /\ nCheck <= 1
  /\ nSubmit <= 5
  /\ pc = "submit" => (nSubmit = attempt /\ attempt < 5 /\ nCheck = 1)
  /\ pc = "check" => (i \notin checked /\ i \notin submitted /\ nCheck = 0)
  /\ \A k \in checked \cup submitted : k <= i
  /\ pc = "loop" => \A k \in checked \cup submitted : k < i

\* Every save request takes the next slot; a 429 does so like any other
\* answer, and one on the fifth attempt ends the loop with the record
\* pending. Leaving the record sends nothing more.
C15_BoundedSteps ==
  /\ (pc = "submit" /\ IsStatus(lastResp', RateLimited)
        /\ nSubmit' = nSubmit + 1) =>
       /\ attempt' = attempt + 1
       /\ pc' = (IF attempt < 4 THEN "submit" ELSE "after")
       /\ ~success'
       /\ UNCHANGED records
  /\ nSubmit' \in {0, nSubmit, nSubmit + 1}
  /\ nSubmit' = nSubmit + 1 => (pc = "submit" /\ submitted' = submitted \cup {i})
  /\ nCheck' = nCheck + 1 => (pc = "check" /\ checked' = checked \cup {i})
  /\ (nSubmit' = 0 /\ nSubmit > 0) => i' > i \/ pc' = "check"
  /\ pc = "after" => UNCHANGED <<nSubmit, nCheck, checked, submitted>>

\* Five 429 answers in a row: five requests, five waits, no sixth request,
\* the record pending in memory and in the record file.
C15_FiveRateLimits ==
  (pc = "after" /\ nSubmit = 5 /\ nBackoff = 5 /\ IsStatus(lastResp, RateLimited)
     /\ lastWait = RateLimitWait) =>
    /\ ~success
    /\ records[i + 1].wayback_url = ""
    /\ csvFile[i + 1].wayback_url = ""

\* C15: one visit of a record issues at most five save requests and at most
\* one availability check; a 429 consumes an attempt slot, so five
\* consecutive 429 answers leave the record pending and no sixth request is
\* sent.
C15_RequestsBounded ==
  [](C15_BoundedState /\ C15_FiveRateLimits) /\ [][C15_BoundedSteps]_vars

\* Five requests were sent for one record and the last answer was a 429;
\* the run went on to its end.
C15_Witness ==
  /\ pc = "done" /\ exitCode = 0
  /\ nSubmit = 5 /\ nCheck = 1 /\ nBackoff = 5
  /\ IsStatus(lastResp, RateLimited)
  /\ \E k \in Indices : k - 1 \in submitted /\ csvFile[k].wayback_url = ""


\* ----------------------------------------------------------------------
\* C16
\* ----------------------------------------------------------------------

\* The archiving loop of the current record has ended without success.
SubmitFailed == pc = "after" /\ ~success

\* Pre-archived records the loop has skipped so far.
SkippedSoFar == {k \in Indices : k <= i /\ PreArchived(k)}

\* C16 as stated: when the submit of a record has ended in failure, both
\* files have been rewritten for that record and the status file carries
\* the in-memory counters.
C16_FailurePersisted ==
  SubmitFailed =>
    /\ csvWrittenFor = i
    /\ statsWrittenFor = i
    /\ statsFile = [new_archives |-> archived,
                    already_archived |-> skipped + found_existing,
                    failed |-> 0]

\* After a failed submit neither file has been written for the record. The
\* record file equals the records in memory all the same, nothing having
\* changed; the status file has the in-memory new_archives, and an
\* already_archived that is short of skipped + found_existing by no more
\* than the pre-archived records skipped so far.
C16_FailedState ==
  SubmitFailed =>
    /\ csvWrittenFor # i
    /\ statsWrittenFor # i
    /\ csvFile = records
    /\ statsFile.new_archives = archived
    /\ statsFile.failed = 0
    /\ statsFile.already_archived <= skipped + found_existing
    /\ skipped + found_existing - statsFile.already_archived
         <= Count(SkippedSoFar)

\* The step that ends the archiving loop in failure and the step of the
\* failure pause write no file: the pause is three seconds and the loop goes
\* to the next record.
C16_FailedSteps ==
  /\ (pc = "submit" /\ pc' = "after") =>
       UNCHANGED <<csvFile, statsFile, csvWrittenFor, statsWrittenFor, records>>
  /\ SubmitFailed =>
       /\ UNCHANGED <<csvFile, statsFile, csvWrittenFor, statsWrittenFor,
                      records, archived, skipped, found_existing>>
       /\ lastWait' = FailurePause
       /\ elapsed' = Min(elapsed + FailurePause, MaxClock)
       /\ pc' = "loop" /\ i' = i + 1

\* C16 (amended): when the submit of a record ends in failure, neither file
\* is rewritten before the failure pause; the files keep what the last
\* write put there, which is the in-memory records and new_archives, and an
\* already_archived that may lag by the pre-archived records skipped.
C16_FailureWritesNothing ==
  [](C16_FailedState) /\ [][C16_FailedSteps]_vars

\* A submit failed after a pre-archived record was skipped: the status file
\* still says already_archived = 0 while one record has been counted.
C16_Witness ==
  /\ SubmitFailed
  /\ i = 1 /\ PreArchived(1)
  /\ skipped = 1
  /\ statsFile.already_archived = 0
  /\ nSubmit = 5


\* ----------------------------------------------------------------------
\* C17
\* ----------------------------------------------------------------------

\* Positions inside the processing of one record.
InRecord ==
  pc \in {"check", "found_csv", "found_stats", "submit", "arch_csv",
          "arch_stats", "after"}

\* The loop has been left: only the final writes and the return remain.
AfterLoop == pc \in {"final_csv", "final_stats", "done"}

\* The cutoff has been taken only at the top of an iteration with the time
\* budget exceeded, and after it the run is past the loop.
C17_CutoffState ==
  /\ timedOut => (AfterLoop /\ elapsed > timeout)
  /\ (AfterLoop /\ ~timedOut /\ Loaded) => i = Len(records)

\* The cutoff is taken at the top of an iteration only. Once the loop is
\* left no record is visited and no request sent. Inside a record the
\* budget is not looked at: no step there leaves the loop, the step after
\* a retry is the next attempt, and the record ends where its own policy
\* ends it, even with the budget already exceeded.
C17_CutoffSteps ==
  /\ (~timedOut /\ timedOut') =>
       /\ pc = "loop" /\ elapsed' > timeout /\ pc' = "final_csv"
       /\ UNCHANGED <<i, records, checked, submitted, nCheck, nSubmit>>
  /\ (pc = "loop" /\ i < Len(records) /\ elapsed' > timeout) =>
       (timedOut' /\ pc' = "final_csv")
  /\ AfterLoop =>
       /\ AfterLoop'
       /\ UNCHANGED <<i, records, checked, submitted, nCheck, nSubmit,
                      lastResp, archived, skipped, found_existing, timedOut>>
  /\ InRecord =>
       /\ ~AfterLoop' /\ ~timedOut'
       /\ pc' = "loop" => pc \in {"check", "found_stats", "after"}
  /\ (pc = "submit" /\ attempt' = attempt + 1 /\ attempt' < 5) => pc' = "submit"
  /\ (pc = "check" /\ ~check_only /\ records' = records) => pc' = "submit"

\* C17: the time budget is looked at only at the top of each iteration.
\* Once it is found exceeded there, no later record is visited and no
\* further request is sent; a record already begun is not cut short by the
\* budget running out and goes through its whole retry policy.
C17_TimeoutOnlyAtLoopTop ==
  [](C17_CutoffState) /\ [][C17_CutoffSteps]_vars

\* A record went through all five attempts with the budget exceeded from
\* its first wait on, and the cutoff then kept the loop from the record
\* after it.
C17_Witness ==
  /\ timedOut /\ pc = "done"
  /\ timeout < MaxClock
  /\ Len(records) = 2 /\ i = 1
  /\ nSubmit = 5 /\ nBackoff >= 4
  /\ checked = {0} /\ submitted = {0}
  /\ records[2].wayback_url = "" /\ records[2].removed = ""


\* ----------------------------------------------------------------------
\* C18
\* ----------------------------------------------------------------------

\* The save request sent by this step, the n-th of the record (n = nSubmit'),
\* was answered 520.
C18_ServerErrorNow ==
  pc = "submit" /\ nSubmit' = nSubmit + 1 /\ IsStatus(lastResp', ServerError)

\* A 520 on the n-th request of the record, n counting every request made
\* for it so far: for n < 5 the step waits 30 * n seconds and the next step
\* is request n + 1; for n = 5 the step waits nothing and ends the loop
\* with the record pending.
C18_ServerErrorSteps ==
  C18_ServerErrorNow =>
    /\ nSubmit' \in 1..5
    /\ nSubmit' = attempt + 1
    /\ UNCHANGED <<records, csvFile, statsFile, archived>>
    /\ ~success'
    /\ IF nSubmit' < 5
         THEN /\ lastWait' = 30 * nSubmit'
              /\ elapsed' >= Min(elapsed + 30 * nSubmit', MaxClock)
              /\ nBackoff' = nBackoff + 1
              /\ attempt' = attempt + 1
              /\ pc' = "submit"
         ELSE /\ UNCHANGED <<lastWait, nBackoff, attempt>>
              /\ elapsed' <= Min(elapsed + MaxDelay, MaxClock)
              /\ pc' = "after"

\* After a 520 that was retried, the wait just taken is 30 s times the
\* number of requests made; after a 520 on the fifth request the record has
\* had five requests and is left.
C18_ServerErrorState ==
  /\ (pc = "submit" /\ nSubmit > 0 /\ IsStatus(lastResp, ServerError)) =>
       (lastWait = 30 * nSubmit /\ nSubmit < 5)
  /\ (pc = "after" /\ IsStatus(lastResp, ServerError)) =>
       (nSubmit = 5 /\ ~success /\ records[i + 1].wayback_url = "")

\* C18: a 520 on attempt n (counted from 1 over all attempts made for the
\* record, those used by a 429 or a transport error included) waits exactly
\* 30 * n seconds and retries when n < 5; a 520 on the fifth attempt is
\* terminal: no wait and no further request.
C18_ServerErrorBackoff ==
  [](C18_ServerErrorState) /\ [][C18_ServerErrorSteps]_vars

\* A 520 on the third attempt, the first two having been used by a 429 and
\* a transport error, waited 90 s; and a 520 on the fifth attempt ended a
\* record.
C18_RetriedWitness ==
  /\ pc = "submit" /\ nSubmit = 3
  /\ IsStatus(lastResp, ServerError) /\ lastWait = 90

\* Four waits, the last of 120 s after a 520, then a 520 that ended the loop.
C18_Witness ==
  /\ pc = "after" /\ nSubmit = 5 /\ nBackoff = 4
  /\ IsStatus(lastResp, ServerError)
  /\ lastWait = 120


\* ----------------------------------------------------------------------
\* C19
\* ----------------------------------------------------------------------

\* The availability answer does not report a snapshot: the request failed,
\* or the body says unavailable, or it carries no URL.
ReportsNotFound(resp) ==
  \/ resp.kind = "error"
  \/ resp.kind = "json" /\ (~resp.available \/ resp.url = None \/ resp.url[1] = "")

\* Every request so far was for a record at or before the loop's position,
\* every record behind the position that was requested is done with, and a
\* save request has only been sent for a record that was checked. While the
\* archiving loop runs, the one check of this visit has been made, and the
\* answer that opened the loop reported not-found.
C19_OrderState ==
  /\ submitted \subseteq checked
  /\ \A k \in checked : k <= i
  /\ pc \in {"loop", "check"} => \A k \in checked : k < i
  /\ pc = "submit" => (nCheck = 1 /\ i \in checked /\ ~check_only)
  /\ (pc = "submit" /\ nSubmit = 0) => ReportsNotFound(lastResp)
  /\ Loaded => i <= Len(records)

\* The position moves by one record at a time and never back; a request is
\* for the record at the position; a save request is sent from inside the
\* archiving loop only, which is entered only by a check of the same visit
\* that reported not-found, a failed check included.
C19_OrderSteps ==
  /\ i' \in {i, i + 1}
  /\ checked' # checked => (pc = "check" /\ checked' = checked \cup {i})
  /\ submitted' # submitted =>
       (pc = "submit" /\ submitted' = submitted \cup {i} /\ i \in checked)
  /\ (pc # "submit" /\ pc' = "submit") =>
       /\ pc = "check" /\ nCheck' = 1 /\ i' = i
       /\ ReportsNotFound(lastResp')
       /\ nSubmit' = 0
  /\ (pc = "check" /\ ~check_only /\ lastResp'.kind = "error") => pc' = "submit"
  /\ (pc = "check" /\ ~ReportsNotFound(lastResp')) => pc' = "found_csv"

\* C19: records are processed one at a time in input order, and a save
\* request is sent for a record only after an availability check for the
\* same record, in the same iteration, reported not-found (a check that
\* failed counts as not-found).
C19_InOrderCheckBeforeSubmit ==
  [](C19_OrderState) /\ [][C19_OrderSteps]_vars

\* The archiving loop of the second record opens after a failed check, the
\* first record having been checked and submitted before it.
C19_FailedCheckWitness ==
  /\ pc = "submit" /\ nSubmit = 0 /\ lastResp.kind = "error"
  /\ checked = {0, 1} /\ submitted = {0}

\* Two records in a row were each checked and then submitted.
C19_Witness ==
  /\ checked = {0, 1} /\ submitted = {0, 1}
  /\ pc = "after" /\ i = 1 /\ nCheck = 1
  /\ via[1] = "submit"


\* ----------------------------------------------------------------------
\* C20
\* ----------------------------------------------------------------------

\* Records whose wayback_url was set by a successful save in this run.
SetBySubmit == {k \in Indices : via[k] = "submit"}

\* Records with a non-empty wayback_url in the record file.
ArchivedInFile == {k \in 1..Len(csvFile) : csvFile[k].wayback_url # ""}

\* The status file was written last, right after the record file, and
\* nothing has happened since but a pause: after the writes of a found or
\* archived record, and after the final writes.
BothJustPersisted ==
  \/ pc = "after" /\ csvWrittenFor = i /\ statsWrittenFor = i
  \/ pc = "loop" /\ i > 0 /\ csvWrittenFor = i - 1 /\ statsWrittenFor = i - 1
  \/ pc = "done" /\ exitCode = 0

\* With both files just written: new_archives is the number of records set
\* by a save in this run, each of them pending on load and non-empty in the
\* record file; new_archives + already_archived does not exceed the number
\* of non-empty wayback_url in the record file, and equals it at the end
\* of a run whose loop reached the last record. The failed line is 0 once
\* the status file has been written at all.
C20_ConsistentState ==
  /\ BothJustPersisted =>
       /\ statsFile.new_archives = Count(SetBySubmit)
       /\ \A k \in SetBySubmit :
            loaded[k].wayback_url = "" /\ csvFile[k].wayback_url # ""
       /\ statsFile.new_archives + statsFile.already_archived
            <= Count(ArchivedInFile)
       /\ csvFile = records
  /\ (pc = "done" /\ exitCode = 0 /\ ~timedOut) =>
       statsFile.new_archives + statsFile.already_archived
         = Count(ArchivedInFile)
  /\ pc # "init_stats" => statsFile.failed = 0

\* Every write of the status file writes failed = 0, and new_archives never
\* goes down or up by more than one between two writes.
C20_ConsistentSteps ==
  /\ statsFile' # statsFile =>
       /\ statsFile'.failed = 0
       /\ pc \in {"init_stats", "found_stats", "arch_stats", "final_stats"}
  /\ (statsFile' # statsFile /\ pc # "init_stats") =>
       /\ statsFile'.new_archives \in
            {statsFile.new_archives, statsFile.new_archives + 1}
       /\ statsFile'.already_archived >= statsFile.already_archived

\* C20: whenever both files have just been persisted, the status file's
\* new_archives is the number of records whose wayback_url a successful
\* save set in this run (each counted once), and new_archives +
\* already_archived is at most the number of records with a non-empty
\* wayback_url in the record file; the two are equal at the final persist
\* of a run that reached the last record, and failed is 0 in every write.
C20_CountersMatchRecords ==
  [](C20_ConsistentState) /\ [][C20_ConsistentSteps]_vars

\* A run cut off by the time budget ended with one record archived by a
\* save and a pre-archived record never visited: the sum of the counters is
\* below the number of URLs in the record file.
C20_Witness ==
  /\ pc = "done" /\ exitCode = 0 /\ timedOut
  /\ statsFile.new_archives = 1
  /\ Count(SetBySubmit) = 1
  /\ statsFile.new_archives + statsFile.already_archived < Count(ArchivedInFile)

\* A run that reached the last record ended with the sum equal to the
\* number of URLs in the record file, one of each origin.
C20_EqualityWitness ==
  /\ pc = "done" /\ exitCode = 0 /\ ~timedOut
  /\ statsFile.new_archives = 1 /\ statsFile.already_archived = 1
  /\ Count(ArchivedInFile) = 2

====
